---- MODULE Spec2Model ----
(***************************************************************************)
(* Model of the client-side resilience layer of the dashboard UI:          *)
(*   - useErrorHandling (src/unnamed/part_002): errorState, classification *)
(*     of failures, withRetry, safeAsync;                                   *)
(*   - usePerformance (src/web/src/composables/usePerformance.ts):          *)
(*     debounce, throttle, debouncedWatch, optimizedUpdate,                 *)
(*     useLoadingState;                                                     *)
(*   - Dashboard.vue: loadDashboardData bracketing a load with              *)
(*     startLoading / stopLoading.                                          *)
(*                                                                         *)
(* The module holds several specifications over one set of variables:      *)
(*   SpecClassify  handleError applied once to a failure value drawn from   *)
(*                 a bounded set of JavaScript values;                      *)
(*   SpecSolo      one withRetry / safeAsync invocation at a time on an     *)
(*                 errorState, direct calls only between invocations;       *)
(*   Spec          overlapping invocations and direct calls at any time;    *)
(*   SpecLoading   the loading-state aggregator and bracketed loads;        *)
(*   SpecDebounce  one debounce / debouncedWatch registration and the       *)
(*                 host's timers;                                           *)
(*   SpecScheduler a usePerformance instance up to and after its unmount;   *)
(*   SpecDashboard the loads of Dashboard.vue and its retry button;         *)
(*   SpecSoloFair  SpecSolo in which calls settle and timers fire;          *)
(*   SpecOverlap   overlapping invocations started with no error recorded;  *)
(*   SpecThrottle  one function returned by throttle.                       *)
(* A specification leaves the variables of the other parts unchanged.      *)
(***************************************************************************)
EXTENDS Integers, Sequences, FiniteSets, TLC

VARIABLES
  errorState,   \* the reactive ErrorState (timestamp left out: nothing reads it)
  onLine,       \* navigator.onLine
  cErr,         \* SpecClassify: the failure value handed to handleError
  cResult,      \* SpecClassify: "none" before the call, then the returned type or "throws"
  procs,        \* the withRetry / safeAsync invocations, by invocation slot
  loadingCount, \* useLoadingState: loadingCount.value
  isLoading,    \* useLoadingState: isLoading.value
  inflight,     \* bracketed loads between their startLoading and their stopLoading
  loadCalls,    \* history: the startLoading / stopLoading / resetLoading calls made
  bracketed,    \* history: TRUE while every call so far came from a bracketed load
  callers,      \* history: who made each call of loadCalls (the load, or 0: a direct call)
  dKind,        \* which registration the instance holds: "debounce", "watch", ...
  dDelay,       \* its delay
  lastCall,     \* throttle: the closure's lastCall
  now,          \* the host's clock
  timeoutId,    \* the registration's timeoutId (0 is null)
  timers,       \* the host's armed timers: records [id, due, arg]
  nextTimer,    \* the id the next setTimeout returns
  cleanup,      \* debouncedWatch: whether the watcher holds a registered onCleanup
  callLog,      \* history: the calls of the debounced function, [arg, t]
  fireLog,      \* history: the invocations of the wrapped callback, [arg, t, n]
  discarded,    \* history: the calls whose pending invocation cancel discarded
  pendingOptimized, \* optimizedUpdate: callback -> id of its armed timer (0: no entry)
  nextTicks,    \* callbacks handed to nextTick and not yet run: [cb, by]
  unmounted,    \* whether the owning component's onBeforeUnmount hooks have run
  cancelLog,    \* history: the cancel() calls, [calls, fires] made before each
  runLog,       \* history: the invocations of a caller's callback, [by, t, dead]
  dashboardStats, \* Dashboard: the load whose response the ref holds (0: null)
  dash,         \* Dashboard: the loadDashboardData runs, [phase, i, resolved, with]
  dashStarted,  \* Dashboard: the number of loadDashboardData runs started
  page          \* Dashboard: the error alert as last rendered, [alert, loading]

errVars   == <<errorState, onLine>>
clsVars   == <<cErr, cResult>>
dashVars  == <<dashboardStats, dash, dashStarted, page>>
loadVars  == <<loadingCount, isLoading, inflight, loadCalls, bracketed, callers, dashVars>>
schedVars == <<pendingOptimized, nextTicks, unmounted, cancelLog, runLog>>
debVars   == <<dKind, dDelay, lastCall, now, timeoutId, timers, nextTimer, cleanup, callLog, fireLog,
               discarded, schedVars>>
vars      == <<errorState, onLine, cErr, cResult, procs, loadingCount, isLoading,
               inflight, loadCalls, bracketed, callers, dKind, dDelay, lastCall, now, timeoutId,
               timers, nextTimer, cleanup, callLog, fireLog, discarded,
               pendingOptimized, nextTicks, unmounted, cancelLog, runLog,
               dashboardStats, dash, dashStarted, page>>

(***************************************************************************)
(* JavaScript values.  A value is a record tagged with its type; a string  *)
(* is the sequence of its words, so that includes() and a regular          *)
(* expression are decided by matching and not assumed.                     *)
(***************************************************************************)
Undef   == [t |-> "undefined"]
Null    == [t |-> "null"]
Str(w)  == [t |-> "string", s |-> w]
Num(n)  == [t |-> "number", n |-> n]

\* ToBoolean: undefined, null, 0 and "" are falsy.
Truthy(v) ==
  CASE v.t = "undefined" -> FALSE
    [] v.t = "null"      -> FALSE
    [] v.t = "number"    -> v.n # 0
    [] v.t = "string"    -> v.s # <<>>
    [] OTHER             -> TRUE

\* v.f on a value that is neither null nor undefined: a primitive has none of
\* the fields read here.
Get(v, f) == IF v.t = "object" /\ f \in DOMAIN v THEN v[f] ELSE Undef

\* v?.f
OptGet(v, f) == IF v.t \in {"undefined", "null"} THEN Undef ELSE Get(v, f)

\* a || b
Or(a, b) == IF Truthy(a) THEN a ELSE b

\* a === "literal"
StrictEqStr(v, w) == v.t = "string" /\ v.s = w

\* a === 401
StrictEqNum(v, n) == v.t = "number" /\ v.n = n

\* The words that spell a number, for ToNumber of a string.
NumericWords == {<<"401">>, <<"404">>, <<"500">>}
WordNumber(w) ==
  CASE w = <<"401">> -> 401
    [] w = <<"404">> -> 404
    [] w = <<"500">> -> 500
    [] OTHER         -> 0

\* ToNumber is NaN for undefined, for an object and for a string that spells
\* no number: every comparison with NaN is false.
IsNaN(v) ==
  \/ v.t \in {"undefined", "object"}
  \/ v.t = "string" /\ v.s # <<>> /\ v.s \notin NumericWords

ToNumber(v) ==
  CASE v.t = "number" -> v.n
    [] v.t = "string" -> WordNumber(v.s)
    [] OTHER          -> 0

\* v >= n and v < n, with the coercion of the relational operators.
Ge(v, n) == ~IsNaN(v) /\ ToNumber(v) >= n
Lt(v, n) == ~IsNaN(v) /\ ToNumber(v) < n

\* Case folding of the words used.
Lower(word) ==
  CASE word = "Timeout" -> "timeout"
    [] word = "Network" -> "network"
    [] word = "Error"   -> "error"
    [] word = "Failed"  -> "failed"
    [] OTHER            -> word

\* String.prototype.includes
Includes(hay, needle) ==
  \E i \in 1..Len(hay) :
    /\ i + Len(needle) - 1 <= Len(hay)
    /\ SubSeq(hay, i, i + Len(needle) - 1) = needle

\* String(v) for the operand of RegExp.prototype.test
ToStringWords(v) ==
  CASE v.t = "string"    -> v.s
    [] v.t = "number"    -> <<"<number>">>
    [] v.t = "undefined" -> <<"undefined">>
    [] v.t = "null"      -> <<"null">>
    [] OTHER             -> <<"[object", "Object]">>

\* /timeout/i.test(v)
TestTimeout(v) ==
  LET w == ToStringWords(v) IN \E i \in 1..Len(w) : Lower(w[i]) = "timeout"

\* a ?? b
Coalesce(a, b) == IF a.t \in {"undefined", "null"} THEN b ELSE a

\* Whether v.includes is callable: of the values here only a string has it.
HasIncludes(v) == v.t = "string"

(***************************************************************************)
(* useErrorHandling: the classification predicates.  isNetworkError can    *)
(* raise (a TypeError from error.message?.includes when message is neither *)
(* nullish nor a string), so its result is "true", "false" or "throws";    *)
(* the disjuncts are evaluated left to right, as || does.                  *)
(***************************************************************************)
isNetworkError(error, online) ==
  IF ~Truthy(error) THEN "false"
  ELSE IF StrictEqStr(Get(error, "code"), <<"NETWORK_ERROR">>) THEN "true"
  ELSE IF StrictEqStr(Get(error, "code"), <<"ERR_NETWORK">>) THEN "true"
  ELSE IF StrictEqStr(Get(error, "code"), <<"ECONNABORTED">>) THEN "true"
  ELSE IF TestTimeout(Coalesce(Get(error, "message"), Str(<<>>))) THEN "true"
  ELSE IF StrictEqStr(Get(error, "name"), <<"AbortError">>) THEN "true"
  ELSE IF Get(error, "message").t \in {"undefined", "null"}
       THEN (IF ~online THEN "true" ELSE "false")
  ELSE IF ~HasIncludes(Get(error, "message")) THEN "throws"
  ELSE IF Includes(Get(error, "message").s, <<"Network", "Error">>) THEN "true"
  ELSE IF Includes(Get(error, "message").s, <<"Failed", "to", "fetch">>) THEN "true"
  ELSE IF Includes(Get(error, "message").s, <<"fetch">>) THEN "true"
  ELSE IF ~online THEN "true"
  ELSE "false"

\* const status = error.response?.status || error.status
StatusOf(error) == Or(OptGet(Get(error, "response"), "status"), Get(error, "status"))

\* Mutant of isPermissionError: 403 forgotten.
isPermissionError_only401(error) ==
  /\ Truthy(error)
  /\ StrictEqNum(StatusOf(error), 401)

isPermissionError(error) ==
  /\ Truthy(error)
  /\ (StrictEqNum(StatusOf(error), 401) \/ StrictEqNum(StatusOf(error), 403))

isDataError(error) ==
  /\ Truthy(error)
  /\ Ge(StatusOf(error), 400)
  /\ Lt(StatusOf(error), 500)
  /\ ~StrictEqNum(StatusOf(error), 401)
  /\ ~StrictEqNum(StatusOf(error), 403)

isServerError(error) ==
  /\ Truthy(error)
  /\ Ge(StatusOf(error), 500)

\* handleError's if / else-if chain: the errorType it computes, or "throws"
\* when isNetworkError raises.
ErrorTypeOf(error, online) ==
  IF isNetworkError(error, online) = "throws" THEN "throws"
  ELSE IF isNetworkError(error, online) = "true" THEN "network"
  ELSE IF isPermissionError(error) THEN "permission"
  ELSE IF isDataError(error) THEN "data"
  ELSE IF isServerError(error) THEN "server"
  ELSE "unknown"

\* handleError's userMessage: tt(key, fallback) is a non-empty string per
\* kind; the data branch prefers error.response?.data?.message.
UserMessageOf(error, type) ==
  CASE type = "network"    -> "error.network"
    [] type = "permission" -> "error.permission"
    [] type = "data"       ->
         LET m == OptGet(OptGet(Get(error, "response"), "data"), "message")
         IN IF Truthy(m) THEN "response.data.message" ELSE "error.data"
    [] type = "server"     -> "error.server"
    [] OTHER               -> "error.generic"

(***************************************************************************)
(* errorState and its operations, as functions of the state before.        *)
(***************************************************************************)
ErrorTypes == {"network", "data", "permission", "server", "unknown"}

ClearState == [hasError |-> FALSE, message |-> "", type |-> "unknown", retryCount |-> 0]

\* Mutant of setError: recording an error also resets the retry count.
setError_resetsCount(es, msg, type) ==
  [es EXCEPT !.hasError = TRUE, !.message = msg, !.type = type, !.retryCount = 0]

setError(es, msg, type) ==
  [es EXCEPT !.hasError = TRUE, !.message = msg, !.type = type]

\* Mutant of clearError: the type is left as it was.
clearError_keepsType(es) ==
  [es EXCEPT !.hasError = FALSE, !.message = "", !.retryCount = 0]

\* Mutant of clearError: only the flag is reset.
clearError_flagOnly(es) == [es EXCEPT !.hasError = FALSE]

\* Mutant of clearError: only the retry count is reset.
clearError_countOnly(es) == [es EXCEPT !.retryCount = 0]

clearError(es) ==
  [es EXCEPT !.hasError = FALSE, !.message = "", !.retryCount = 0, !.type = "unknown"]

\* Mutant of incrementRetry: the count is raised by two.
incrementRetry_twice(es) == [es EXCEPT !.retryCount = @ + 2]

\* Mutant of incrementRetry: the count is not changed.
incrementRetry_noop(es) == es

incrementRetry(es) == [es EXCEPT !.retryCount = @ + 1]

\* handleError(error): whether it raises, and the errorState it leaves.
handleErrorThrows(error, online) == ErrorTypeOf(error, online) = "throws"

handleError(es, error, online) ==
  IF handleErrorThrows(error, online) THEN es
  ELSE setError(es, UserMessageOf(error, ErrorTypeOf(error, online)),
                ErrorTypeOf(error, online))

(***************************************************************************)
(* The failure values classification is applied to: null, undefined,       *)
(* strings, a number, and objects whose code, name, message, status and    *)
(* response fields are each absent (undefined) or hold a value of one of   *)
(* several types.                                                          *)
(***************************************************************************)
Codes == {Undef, Str(<<"NETWORK_ERROR">>), Str(<<"ERR_NETWORK">>),
          Str(<<"ECONNABORTED">>), Str(<<"ERR_BAD_REQUEST">>), Num(42)}

ErrorNames == {Undef, Str(<<"AbortError">>), Str(<<"Error">>)}

Messages == {Undef, Null, Str(<<>>), Str(<<"Request", "Timeout">>),
             Str(<<"Network", "Error">>), Str(<<"network", "error">>),
             Str(<<"Failed", "to", "fetch">>), Str(<<"Not", "Found">>), Num(42)}

Statuses == {Undef, Num(0), Num(200), Num(400), Num(401), Num(403), Num(404),
             Num(499), Num(500), Num(503), Str(<<"401">>)}

Responses == {Undef, Null, Str(<<"Not", "Found">>),
              [t |-> "object", status |-> Undef, data |-> Undef],
              [t |-> "object", status |-> Num(403), data |-> Null],
              [t |-> "object", status |-> Num(422),
               data |-> [t |-> "object", message |-> Str(<<"Not", "Found">>)]],
              [t |-> "object", status |-> Num(502), data |-> Undef]}

ObjectFailures ==
  {[t |-> "object", code |-> c, name |-> n, message |-> m, status |-> s, response |-> r] :
     c \in Codes, n \in ErrorNames, m \in Messages, s \in Statuses, r \in Responses}

Failures ==
  {Undef, Null, Str(<<>>), Str(<<"Failed", "to", "fetch">>), Num(0), Num(42)}
    \cup ObjectFailures

(***************************************************************************)
(* Initial values of the parts.                                            *)
(***************************************************************************)
InitErr == errorState = ClearState /\ onLine = TRUE

InitCls == cErr = Undef /\ cResult = "none"

\* the functions handed to optimizedUpdate, told apart by identity
Callbacks == {1, 2}

InitSched ==
  /\ lastCall = 0
  /\ pendingOptimized = [cb \in Callbacks |-> 0]
  /\ nextTicks = <<>>
  /\ unmounted = FALSE
  /\ cancelLog = <<>>
  /\ runLog = <<>>

\* the loadDashboardData runs of one Dashboard view, counted as they start
MaxDashLoads == 3
DashLoads == 1 .. MaxDashLoads

NoLoad == [phase |-> "none", i |-> 0, resolved |-> FALSE, with |-> {}]

\* Dashboard.vue before onMounted: dashboardStats = ref(null), nothing
\* loading, no error alert on the page
InitDash ==
  /\ dashboardStats = 0
  /\ dash = [n \in DashLoads |-> NoLoad]
  /\ dashStarted = 0
  /\ page = [alert |-> FALSE, loading |-> FALSE]

InitLoad ==
  /\ InitDash
  /\ loadingCount = 0
  /\ isLoading = FALSE
  /\ inflight = {}
  /\ loadCalls = <<>>
  /\ bracketed = TRUE
  /\ callers = <<>>

InitDeb ==
  /\ dKind = "debounce"
  /\ dDelay = 1
  /\ now = 0
  /\ timeoutId = 0
  /\ timers = {}
  /\ nextTimer = 1
  /\ cleanup = FALSE
  /\ callLog = <<>>
  /\ fireLog = <<>>
  /\ discarded = {}
  /\ InitSched

Procs == {1, 2}

IdleProc ==
  [pc |-> "idle", kind |-> "none", maxRetries |-> 0, i |-> 0, calls |-> 0,
   outcome |-> Undef, script |-> <<>>, option |-> "default", kinds |-> <<>>, waits |-> 0,
   lastError |-> [attempt |-> 0, error |-> Undef], raised |-> "none", value |-> 0,
   timing |-> [retryDelay |-> 0, factor |-> 0, jitter |-> FALSE], wait |-> 0,
   asked |-> 0, trace |-> <<>>, notified |-> FALSE]

InitProcs == procs = [p \in Procs |-> IdleProc]

(***************************************************************************)
(* SpecClassify: handleError(error) with the default options, once, on a    *)
(* failure value and an online flag drawn from the sets above, the          *)
(* errorState being Clear or left by an earlier setError.                   *)
(***************************************************************************)
InitClassify ==
  /\ cErr \in Failures
  /\ onLine \in BOOLEAN
  /\ errorState \in {ClearState, setError(ClearState, "error.generic", "server")}
  /\ cResult = "none"
  /\ InitProcs /\ InitLoad /\ InitDeb

HandleErrorCall ==
  /\ cResult = "none"
  /\ cResult' = ErrorTypeOf(cErr, onLine)
  /\ errorState' = handleError(errorState, cErr, onLine)
  /\ UNCHANGED <<onLine, cErr, procs, loadVars, debVars>>

NextClassify == HandleErrorCall

SpecClassify == InitClassify /\ [][NextClassify]_vars

(***************************************************************************)
(* Classification claims (SpecClassify).                                   *)
(***************************************************************************)
\* The network-layer signals a failure can carry, read off its fields.
CarriesNetworkSignal(e) ==
  /\ e.t = "object"
  /\ \/ e.code \in {Str(<<"NETWORK_ERROR">>), Str(<<"ERR_NETWORK">>), Str(<<"ECONNABORTED">>)}
     \/ e.name = Str(<<"AbortError">>)
     \/ /\ e.message.t = "string"
        /\ \/ \E k \in 1..Len(e.message.s) : Lower(e.message.s[k]) = "timeout"
           \/ Includes(e.message.s, <<"Network", "Error">>)
           \/ Includes(e.message.s, <<"fetch">>)

\* The numeric HTTP-like status of a failure, -1 when it carries none.
NumericStatus(e) == IF StatusOf(e).t = "number" THEN StatusOf(e).n ELSE -1

HandleErrorReturned == cResult \notin {"none", "throws"}

C5_ClassificationTotal ==
  cResult # "none" =>
    /\ cResult # "throws"
    /\ (~(Truthy(cErr) /\ (CarriesNetworkSignal(cErr) \/ ~onLine))
        /\ ~Ge(StatusOf(cErr), 400)) => cResult = "unknown"

(***************************************************************************)
(* withRetry and safeAsync.  An invocation is a record in procs[p]:        *)
(*   pc         "idle", "await" (a call of fn is in flight), "backoff"      *)
(*              (the setTimeout of the backoff wait is armed), "resolved",  *)
(*              "rejected";                                                 *)
(*   outcome    what the call of fn in flight does: Ok or the failure it    *)
(*              rejects with; the k-th call resolves to the value k;        *)
(*   script     the outcomes of fn's calls, in order, when fn's behaviour   *)
(*              is fixed in advance; <<>> when each call's outcome is       *)
(*              decided as the call is made;                                *)
(*   calls      the calls of fn made so far;                                *)
(*   i          the loop variable;                                          *)
(*   kinds      history, kept when the script is: how each failure caught   *)
(*              so far classified under the connectivity of that moment;    *)
(*   waits      history: the backoff waits begun;                           *)
(*   lastError  [attempt, error]: the failure caught last and its attempt;  *)
(*   raised     what a rejected promise carries: "lastError" (the value of  *)
(*              lastError, by throw lastError) or "TypeError" (raised by    *)
(*              isNetworkError inside shouldRetry or handleError);          *)
(*   value      what a resolved promise carries: the number of the call     *)
(*              that produced it, or Fallback for safeAsync's fallback.     *)
(*   timing     [retryDelay, factor, jitter]: withRetry's retryDelay and    *)
(*              its options.factor / options.jitter;                        *)
(*   wait       the delay of the backoff timer armed last, in units of      *)
(*              1 / WaitScale of the unit of retryDelay;                    *)
(*   asked      how many times shouldRetry was called;                      *)
(*   trace      history: "call" / "resolve" / "reject" of op, "arm" /       *)
(*              "fire" of the backoff timer, in the order they happened;    *)
(*   notified   whether message.error was called for this invocation.       *)
(* Each action is one run of the code between two awaits.                  *)
(***************************************************************************)
Ok == [t |-> "resolves"]

Failure(c, n, m, s, r) ==
  [t |-> "object", code |-> c, name |-> n, message |-> m, status |-> s, response |-> r]

\* The failures fn rejects with: one with a network code, one with a 404, a
\* plain Error (network only while offline) and one with a numeric message.
NetFail   == Failure(Str(<<"ERR_NETWORK">>), Str(<<"Error">>), Str(<<"Network", "Error">>), Undef, Undef)
DataFail  == Failure(Undef, Str(<<"Error">>), Str(<<"Not", "Found">>), Num(404), Undef)
PlainFail == Failure(Undef, Str(<<"Error">>), Str(<<"Not", "Found">>), Undef, Undef)
BadFail   == Failure(Undef, Undef, Num(42), Undef, Undef)

RetryFailures == {NetFail, DataFail, PlainFail, BadFail}
Outcomes == {Ok} \cup RetryFailures

Fallback == 0

\* Math.random() yields r / RandomSteps for r in 0 .. RandomSteps - 1; a wait
\* is kept as its numerator over WaitScale so that the jittered waits are
\* integers.
RandomSteps == 2
WaitScale == 2 * RandomSteps

RECURSIVE Pow(_, _)
Pow(b, e) == IF e = 0 THEN 1 ELSE b * Pow(b, e - 1)

\* Mutant of Backoff: the delay grows linearly with the attempt.
Backoff_linear(tm, i, r) ==
  LET base == tm.retryDelay * tm.factor * i
  IN  IF tm.jitter THEN base * (RandomSteps + r) ELSE base * WaitScale

\* const base = retryDelay * Math.pow(factor, i);
\* const wait = jitter ? base * (0.5 + Math.random() * 0.5) : base
Backoff(tm, i, r) ==
  LET base == tm.retryDelay * Pow(tm.factor, i)
  IN  IF tm.jitter THEN base * (RandomSteps + r) ELSE base * WaitScale

\* The values Math.random() is drawn from when the invocation reads it.
Randoms(pr) == IF pr.timing.jitter THEN 0 .. RandomSteps - 1 ELSE {0}

\* retryDelay 1, factor 2 (its default), options.jitter false.
PlainTiming == [retryDelay |-> 1, factor |-> 2, jitter |-> FALSE]

\* handleError's message.error(userMessage): called when showMessage is true
\* and classification did not raise.
Notifies(error, online, showMessage) ==
  showMessage /\ ~handleErrorThrows(error, online)

ShouldRetryOptions == {"default", "always", "never"}

\* Mutant of shouldRetry: every failure is retried.
shouldRetry_everything(option, error, online) == "true"

\* options.shouldRetry applied to a failure: "true", "false" or "throws".
\* The default is (err) => isNetworkError(err).
shouldRetry(option, error, online) ==
  CASE option = "default" -> isNetworkError(error, online)
    [] option = "always"  -> "true"
    [] OTHER              -> "false"

\* C23 as stated: the Network rule is tried first and wins: once handleError
\* was called on a truthy failure that carries a network signal or while the
\* host reports offline, the failure is classified 'network' whatever status
\* it carries, and the default shouldRetry accepts it.
C23_NetworkWinsAndIsRetried ==
  (cResult # "none" /\ Truthy(cErr) /\ (CarriesNetworkSignal(cErr) \/ ~onLine)) =>
    /\ cResult = "network"
    /\ shouldRetry("default", cErr, onLine) = "true"

Outcome(pr) == pr.outcome

\* Whether the call numbered k of a function with this script may do out.
Scripted(scr, k, out) == scr # <<>> => out = scr[k]

\* The kinds history after the failure of the call in flight is caught.
Caught(pr, online) ==
  IF pr.script = <<>> THEN pr.kinds
  ELSE Append(pr.kinds, ErrorTypeOf(pr.outcome, online))

\* withRetry up to its first await: retryCount reset, i = 0, fn() called.
WithRetryStart(p, N, out, scr, opt, tm) ==
  /\ procs[p].pc = "idle"
  /\ Scripted(scr, 1, out)
  /\ errorState' = [errorState EXCEPT !.retryCount = 0]
  /\ procs' = [procs EXCEPT ![p] =
       [pc |-> "await", kind |-> "withRetry", maxRetries |-> N, i |-> 0, calls |-> 1,
        outcome |-> out, script |-> scr, option |-> opt, kinds |-> <<>>, waits |-> 0,
        lastError |-> [attempt |-> 0, error |-> Undef],
        raised |-> "none", value |-> Fallback,
        timing |-> tm, wait |-> 0, asked |-> 0, trace |-> <<"call">>,
        notified |-> FALSE]]
  /\ UNCHANGED <<onLine, clsVars, loadVars, debVars>>

\* await fn() resolves: clearError(); return result.
WithRetryResolve(p) ==
  /\ procs[p].pc = "await" /\ procs[p].kind = "withRetry"
  /\ Outcome(procs[p]) = Ok
  /\ errorState' = clearError(errorState)
  /\ procs' = [procs EXCEPT ![p].pc = "resolved", ![p].value = procs[p].calls,
                            ![p].trace = Append(@, "resolve")]
  /\ UNCHANGED <<onLine, clsVars, loadVars, debVars>>

\* Mutant of WithRetryRetry: the backoff timer is armed but not awaited, the
\* next attempt starts at once.
WithRetryRetry_notAwaited(p, r) ==
  /\ procs[p].pc = "await" /\ procs[p].kind = "withRetry"
  /\ Outcome(procs[p]) # Ok
  /\ procs[p].i < procs[p].maxRetries
  /\ shouldRetry(procs[p].option, Outcome(procs[p]), onLine) = "true"
  /\ procs[p].script # <<>>
  /\ errorState' = incrementRetry(errorState)
  /\ procs' = [procs EXCEPT ![p].waits = @ + 1,
                            ![p].wait = Backoff(procs[p].timing, procs[p].i, r),
                            ![p].asked = @ + 1,
                            ![p].i = @ + 1,
                            ![p].calls = @ + 1,
                            ![p].outcome = procs[p].script[procs[p].calls + 1],
                            ![p].trace = @ \o <<"reject", "arm", "call">>,
                            ![p].kinds = Caught(procs[p], onLine),
                            ![p].lastError = [attempt |-> procs[p].calls,
                                              error |-> Outcome(procs[p])]]
  /\ UNCHANGED <<onLine, clsVars, loadVars, debVars>>

\* await fn() rejects, i < maxRetries and shouldRetry(error) is true:
\* incrementRetry(), then the backoff setTimeout is armed.
WithRetryRetry(p, r) ==
  /\ procs[p].pc = "await" /\ procs[p].kind = "withRetry"
  /\ Outcome(procs[p]) # Ok
  /\ procs[p].i < procs[p].maxRetries
  /\ shouldRetry(procs[p].option, Outcome(procs[p]), onLine) = "true"
  /\ errorState' = incrementRetry(errorState)
  /\ procs' = [procs EXCEPT ![p].pc = "backoff",
                            ![p].waits = @ + 1,
                            ![p].wait = Backoff(procs[p].timing, procs[p].i, r),
                            ![p].asked = @ + 1,
                            ![p].trace = @ \o <<"reject", "arm">>,
                            ![p].kinds = Caught(procs[p], onLine),
                            ![p].lastError = [attempt |-> procs[p].calls,
                                              error |-> Outcome(procs[p])]]
  /\ UNCHANGED <<onLine, clsVars, loadVars, debVars>>

\* await fn() rejects, i < maxRetries and shouldRetry(error) raises: the
\* exception leaves the catch block and rejects withRetry's promise.
WithRetryShouldRetryRaises(p) ==
  /\ procs[p].pc = "await" /\ procs[p].kind = "withRetry"
  /\ Outcome(procs[p]) # Ok
  /\ procs[p].i < procs[p].maxRetries
  /\ shouldRetry(procs[p].option, Outcome(procs[p]), onLine) = "throws"
  /\ procs' = [procs EXCEPT ![p].pc = "rejected", ![p].raised = "TypeError",
                            ![p].asked = @ + 1,
                            ![p].trace = Append(@, "reject"),
                            ![p].kinds = Caught(procs[p], onLine),
                            ![p].lastError = [attempt |-> procs[p].calls,
                                              error |-> Outcome(procs[p])]]
  /\ UNCHANGED <<errorState, onLine, clsVars, loadVars, debVars>>

\* await fn() rejects and the loop breaks (i = maxRetries, or shouldRetry is
\* false): handleError(lastError), then throw lastError; when handleError
\* raises, its exception is what rejects the promise.
WithRetryGiveUp(p) ==
  /\ procs[p].pc = "await" /\ procs[p].kind = "withRetry"
  /\ Outcome(procs[p]) # Ok
  /\ \/ procs[p].i >= procs[p].maxRetries
     \/ shouldRetry(procs[p].option, Outcome(procs[p]), onLine) = "false"
  /\ errorState' = handleError(errorState, Outcome(procs[p]), onLine)
  /\ procs' = [procs EXCEPT ![p].pc = "rejected",
                            ![p].raised = IF handleErrorThrows(Outcome(procs[p]), onLine)
                                          THEN "TypeError" ELSE "lastError",
                            ![p].asked = IF procs[p].i < procs[p].maxRetries
                                         THEN @ + 1 ELSE @,
                            ![p].trace = Append(@, "reject"),
                            ![p].notified = Notifies(Outcome(procs[p]), onLine, TRUE),
                            ![p].kinds = Caught(procs[p], onLine),
                            ![p].lastError = [attempt |-> procs[p].calls,
                                              error |-> Outcome(procs[p])]]
  /\ UNCHANGED <<onLine, clsVars, loadVars, debVars>>

\* Mutant of BackoffFires: the timer fires but the loop is not resumed.
BackoffFires_lost(p, out) ==
  /\ procs[p].pc = "backoff"
  /\ Scripted(procs[p].script, procs[p].calls + 1, out)
  /\ procs' = [procs EXCEPT ![p].pc = "lost", ![p].trace = Append(@, "fire")]
  /\ UNCHANGED <<errorState, onLine, clsVars, loadVars, debVars>>

\* The backoff timer fires: continue; i++; fn() is called again.
BackoffFires(p, out) ==
  /\ procs[p].pc = "backoff"
  /\ Scripted(procs[p].script, procs[p].calls + 1, out)
  /\ procs' = [procs EXCEPT ![p].pc = "await", ![p].i = @ + 1, ![p].calls = @ + 1,
                            ![p].outcome = out,
                            ![p].trace = @ \o <<"fire", "call">>]
  /\ UNCHANGED <<errorState, onLine, clsVars, loadVars, debVars>>

\* safeAsync up to its await: fn() called.
SafeAsyncStart(p, out) ==
  /\ procs[p].pc = "idle"
  /\ procs' = [procs EXCEPT ![p] =
       [pc |-> "await", kind |-> "safeAsync", maxRetries |-> 0, i |-> 0, calls |-> 1,
        outcome |-> out, script |-> <<>>, option |-> "default", kinds |-> <<>>, waits |-> 0,
        lastError |-> [attempt |-> 0, error |-> Undef],
        raised |-> "none", value |-> Fallback,
        timing |-> IdleProc.timing, wait |-> 0, asked |-> 0, trace |-> <<"call">>,
        notified |-> FALSE]]
  /\ UNCHANGED <<errorState, onLine, clsVars, loadVars, debVars>>

\* safeAsync: await fn() resolves: clearError(); return result.
SafeAsyncResolve(p) ==
  /\ procs[p].pc = "await" /\ procs[p].kind = "safeAsync"
  /\ Outcome(procs[p]) = Ok
  /\ errorState' = clearError(errorState)
  /\ procs' = [procs EXCEPT ![p].pc = "resolved", ![p].value = procs[p].calls,
                            ![p].trace = Append(@, "resolve")]
  /\ UNCHANGED <<onLine, clsVars, loadVars, debVars>>

\* safeAsync: await fn() rejects: handleError(error, {showMessage: false});
\* return fallback; when handleError raises, safeAsync's promise rejects.
SafeAsyncReject(p) ==
  /\ procs[p].pc = "await" /\ procs[p].kind = "safeAsync"
  /\ Outcome(procs[p]) # Ok
  /\ errorState' = handleError(errorState, Outcome(procs[p]), onLine)
  /\ procs' = [procs EXCEPT
       ![p].pc = IF handleErrorThrows(Outcome(procs[p]), onLine)
                 THEN "rejected" ELSE "resolved",
       ![p].raised = IF handleErrorThrows(Outcome(procs[p]), onLine)
                     THEN "TypeError" ELSE "none",
       ![p].value = Fallback,
       ![p].kinds = <<ErrorTypeOf(Outcome(procs[p]), onLine)>>,
       ![p].trace = Append(@, "reject"),
       ![p].notified = Notifies(Outcome(procs[p]), onLine, FALSE),
       ![p].lastError = [attempt |-> procs[p].calls, error |-> Outcome(procs[p])]]
  /\ UNCHANGED <<onLine, clsVars, loadVars, debVars>>

\* The caller has taken the settled promise's result; the slot is free for
\* the next invocation.
Settled(p) == procs[p].pc \in {"resolved", "rejected"}

Return(p) ==
  /\ Settled(p)
  /\ procs' = [procs EXCEPT ![p] = IdleProc]
  /\ UNCHANGED <<errorState, onLine, clsVars, loadVars, debVars>>

\* Direct calls of the operations useErrorHandling returns.
SetErrorCall(msg, type) ==
  /\ errorState' = setError(errorState, msg, type)
  /\ UNCHANGED <<onLine, clsVars, procs, loadVars, debVars>>

ClearErrorCall ==
  /\ errorState' = clearError(errorState)
  /\ UNCHANGED <<onLine, clsVars, procs, loadVars, debVars>>

IncrementRetryCall ==
  /\ errorState' = incrementRetry(errorState)
  /\ UNCHANGED <<onLine, clsVars, procs, loadVars, debVars>>

HandleErrorDirect(e) ==
  /\ errorState' = handleError(errorState, e, onLine)
  /\ UNCHANGED <<onLine, clsVars, procs, loadVars, debVars>>

\* The host goes offline or comes back online.
ToggleOnline ==
  /\ onLine' = ~onLine
  /\ UNCHANGED <<errorState, clsVars, procs, loadVars, debVars>>

(***************************************************************************)
(* SpecSolo: invocations one after the other on one errorState; the        *)
(* direct calls happen between invocations, the host's connectivity        *)
(* changes at any time.  Spec: two invocation slots, so invocations        *)
(* overlap, and direct calls at any time.                                  *)
(***************************************************************************)
MaxRetries == 3
MaxOverlapRetries == 1
MaxRetryCount == 2
MaxCustomRetries == 1

\* The scripts of a function called at most N + 1 times: it fails on every
\* call, or fails some calls and then succeeds (withRetry makes no call after
\* a success, so a script ends there).
FailureRuns(k) == [1..k -> RetryFailures]
Scripts(N) ==
  FailureRuns(N + 1) \cup {Append(f, Ok) : f \in UNION {FailureRuns(k) : k \in 0..N}}

\* The options.shouldRetry tried with maxRetries N: the default for every N,
\* the caller's own predicates for the small ones.
OptionsFor(N) == IF N <= MaxCustomRetries THEN ShouldRetryOptions ELSE {"default"}

\* The outcomes drawn for overlapping invocations.
OverlapOutcomes == {Ok, NetFail, DataFail, BadFail}

InitRetry == InitErr /\ InitCls /\ InitProcs /\ InitLoad /\ InitDeb

Idle(p) == procs[p].pc = "idle"

NextSolo ==
  \/ \E N \in 0..MaxRetries : \E scr \in Scripts(N) : \E opt \in OptionsFor(N) :
       WithRetryStart(1, N, scr[1], scr, opt, PlainTiming)
  \/ WithRetryResolve(1)
  \/ \E r \in Randoms(procs[1]) : WithRetryRetry(1, r)
  \/ WithRetryShouldRetryRaises(1)
  \/ WithRetryGiveUp(1)
  \/ \E out \in Outcomes : BackoffFires(1, out)
  \/ \E out \in Outcomes : SafeAsyncStart(1, out)
  \/ SafeAsyncResolve(1)
  \/ SafeAsyncReject(1)
  \/ Return(1)
  \/ Idle(1) /\ ClearErrorCall
  \/ Idle(1) /\ errorState.retryCount < MaxRetryCount /\ IncrementRetryCall
  \/ ToggleOnline

SpecSolo == InitRetry /\ [][NextSolo]_vars

Next ==
  \/ \E p \in Procs : \E N \in 0..MaxOverlapRetries : \E out \in OverlapOutcomes :
       WithRetryStart(p, N, out, <<>>, "default", PlainTiming)
  \/ \E p \in Procs : WithRetryResolve(p)
  \/ \E p \in Procs : \E r \in Randoms(procs[p]) : WithRetryRetry(p, r)
  \/ \E p \in Procs : WithRetryShouldRetryRaises(p)
  \/ \E p \in Procs : WithRetryGiveUp(p)
  \/ \E p \in Procs : \E out \in OverlapOutcomes : BackoffFires(p, out)
  \/ \E p \in Procs : \E out \in OverlapOutcomes : SafeAsyncStart(p, out)
  \/ \E p \in Procs : SafeAsyncResolve(p)
  \/ \E p \in Procs : SafeAsyncReject(p)
  \/ \E p \in Procs : Return(p)
  \/ \E type \in ErrorTypes : SetErrorCall("custom", type)
  \/ ClearErrorCall
  \/ errorState.retryCount < MaxRetryCount /\ IncrementRetryCall
  \/ \E e \in RetryFailures : HandleErrorDirect(e)
  \/ ToggleOnline

Spec == InitRetry /\ [][Next]_vars

(***************************************************************************)
(* Claims about one withRetry invocation running alone (SpecSolo).         *)
(***************************************************************************)
\* Every failure the invocation in slot 1 has caught so far classified as
\* Network when it was caught.
AllCaughtNetwork == \A j \in 1..Len(procs[1].kinds) : procs[1].kinds[j] = "network"

DefaultWithRetry == procs[1].kind = "withRetry" /\ procs[1].option = "default"

\* C1: withRetry(op, N, delay) with default options, every call of op
\* rejecting with a failure classified Network: once settled, op has been
\* called N+1 times, N backoff waits were begun, retryCount is N, the promise
\* is rejected with the failure of the last attempt, and errorState holds an
\* error of type 'network'.
C1_AllNetworkExhausts ==
  LET pr == procs[1] IN
  (/\ DefaultWithRetry /\ Settled(1)
   /\ \A k \in 1..Len(pr.script) : pr.script[k] # Ok
   /\ AllCaughtNetwork)
  => /\ pr.calls = pr.maxRetries + 1
     /\ pr.waits = pr.maxRetries
     /\ errorState.retryCount = pr.maxRetries
     /\ pr.pc = "rejected" /\ pr.raised = "lastError"
     /\ pr.lastError = [attempt |-> pr.maxRetries + 1, error |-> pr.script[pr.maxRetries + 1]]
     /\ errorState.hasError /\ errorState.type = "network"

\* C1 witness: withRetry(op, 2, delay) rejected after three Network failures.
C1_Witness ==
  /\ DefaultWithRetry /\ procs[1].pc = "rejected"
  /\ procs[1].maxRetries = 2
  /\ procs[1].script = <<NetFail, NetFail, NetFail>>
  /\ procs[1].calls = 3
  /\ errorState.retryCount = 2

FailsTwiceThenSucceeds(pr) ==
  /\ pr.kind = "withRetry" /\ pr.option = "default"
  /\ pr.maxRetries = 3
  /\ Len(pr.script) = 3 /\ pr.script[3] = Ok

\* C3 as stated: withRetry(op, 3, 50) where op fails twice then succeeds:
\* once settled, op has been called 3 times, the promise is resolved with
\* the third call's value and hasError is false.
C3_FailsTwiceThenSucceeds ==
  (FailsTwiceThenSucceeds(procs[1]) /\ Settled(1))
  => /\ procs[1].calls = 3
     /\ procs[1].pc = "resolved" /\ procs[1].value = 3
     /\ ~errorState.hasError

\* C3 amended: the same, for an op whose two failures classify as Network
\* when they are caught (the failures the default shouldRetry retries).
C3_TwoNetworkFailuresThenSuccess ==
  (FailsTwiceThenSucceeds(procs[1]) /\ Settled(1) /\ AllCaughtNetwork)
  => /\ procs[1].calls = 3
     /\ procs[1].waits = 2
     /\ procs[1].pc = "resolved" /\ procs[1].value = 3
     /\ errorState = ClearState

\* C3 witness: two Network failures, then the third call's value.
C3_Witness ==
  /\ FailsTwiceThenSucceeds(procs[1])
  /\ procs[1].script = <<NetFail, NetFail, Ok>>
  /\ procs[1].pc = "resolved"
  /\ procs[1].value = 3

\* C7 as stated: a rejected withRetry promise carries the failure raised by
\* the last attempt of op that was run, and nothing else.
C7_RejectsWithLastFailure ==
  (procs[1].kind = "withRetry" /\ procs[1].pc = "rejected")
  => /\ procs[1].raised = "lastError"
     /\ procs[1].lastError = [attempt |-> procs[1].calls, error |-> procs[1].outcome]

\* How many events e the trace holds among its first k.
CountIn(tr, e, k) == Cardinality({j \in 1..k : tr[j] = e})

\* C15: within one withRetry invocation at most one call of op is in flight
\* at any instant; an attempt after the first starts only once the previous
\* one has rejected and the backoff timer armed after it has fired; nothing
\* follows an attempt that resolved.
C15_AttemptsSequential ==
  \A p \in Procs :
    LET tr == procs[p].trace IN
    procs[p].kind = "withRetry" =>
      /\ \A k \in 1..Len(tr) :
           CountIn(tr, "call", k) - CountIn(tr, "resolve", k) - CountIn(tr, "reject", k)
             \in {0, 1}
      /\ \A k \in 2..Len(tr) :
           tr[k] = "call" =>
             /\ k >= 5
             /\ tr[k - 1] = "fire" /\ tr[k - 2] = "arm" /\ tr[k - 3] = "reject"
      /\ \A k \in 1..Len(tr) : tr[k] = "resolve" => k = Len(tr)
      /\ CountIn(tr, "fire", Len(tr)) <= CountIn(tr, "arm", Len(tr))

\* C15 witness: two failed attempts, each followed by its backoff wait, and
\* a third attempt that resolves.
C15_Witness ==
  /\ procs[1].kind = "withRetry"
  /\ procs[1].trace = <<"call", "reject", "arm", "fire", "call", "reject", "arm", "fire",
                        "call", "resolve">>

\* C16 as stated: safeAsync(fn, fallback) never rejects and calls fn once; if
\* fn resolved it returns fn's value and errorState is Clear; if fn rejected
\* it returns fallback, errorState holds the classified failure and no
\* notification was emitted.
C16_SafeAsyncNeverRejects ==
  LET pr == procs[1] IN
  (pr.kind = "safeAsync" /\ Settled(1))
  => /\ pr.pc = "resolved"
     /\ pr.calls = 1
     /\ ~pr.notified
     /\ IF pr.outcome = Ok
          THEN pr.value = 1 /\ errorState = ClearState
          ELSE /\ pr.value = Fallback
               /\ errorState.hasError
               /\ pr.kinds = <<errorState.type>>

\* The failures among the first n caught for which shouldRetry returned true.
RetriedAmong(pr, n) ==
  CASE pr.option = "always" -> n
    [] pr.option = "never"  -> 0
    [] OTHER -> Cardinality({j \in 1..n : pr.kinds[j] = "network"})

\* What C20 says of shouldRetry and incrementRetry, whatever the instant:
\* shouldRetry is called once per failed attempt i < maxRetries and never after
\* the last permitted one; a backoff wait begins exactly when it returned
\* true; a first failure it refuses leaves no wait begun and no second call.
ShouldRetryDiscipline(pr) ==
  LET fails == CountIn(pr.trace, "reject", Len(pr.trace)) IN
  /\ pr.asked = (IF fails <= pr.maxRetries THEN fails ELSE pr.maxRetries)
  /\ pr.waits = RetriedAmong(pr, pr.asked)
  /\ pr.waits = CountIn(pr.trace, "arm", Len(pr.trace))
  /\ (pr.asked >= 1 /\ RetriedAmong(pr, 1) = 0) => (pr.waits = 0 /\ pr.calls = 1)

\* C20 as stated: within a withRetry invocation running alone, the discipline
\* above holds and at every instant retryCount equals the number of backoff
\* waits the invocation has begun.
C20_RetryCountIsWaitsBegun ==
  LET pr == procs[1] IN
  pr.kind = "withRetry" =>
    /\ ShouldRetryDiscipline(pr)
    /\ errorState.retryCount = pr.waits

\* C20 amended: the same until an attempt resolves; the success path's
\* clearError then returns retryCount to 0.
C20_RetryCountIsWaitsUntilSuccess ==
  LET pr == procs[1] IN
  pr.kind = "withRetry" =>
    /\ ShouldRetryDiscipline(pr)
    /\ errorState.retryCount = (IF pr.pc = "resolved" THEN 0 ELSE pr.waits)

\* C20 witness: under the default shouldRetry, a Network failure retried and
\* then a Data failure refused with retries left.
C20_Witness ==
  LET pr == procs[1] IN
  /\ pr.kind = "withRetry" /\ pr.option = "default" /\ pr.maxRetries = 3
  /\ pr.pc = "rejected"
  /\ pr.kinds = <<"network", "data">>
  /\ pr.asked = 2 /\ pr.waits = 1
  /\ errorState.retryCount = 1

(***************************************************************************)
(* SpecSoloFair: SpecSolo in which every call of fn eventually settles (the  *)
(* step that follows the awaited promise is taken) and every armed backoff   *)
(* timer eventually fires.                                                   *)
(***************************************************************************)
\* the awaited fn() of the withRetry invocation has settled: the step
\* withRetry takes then
OpSettles ==
  \/ WithRetryResolve(1)
  \/ \E r \in Randoms(procs[1]) : WithRetryRetry(1, r)
  \/ WithRetryShouldRetryRaises(1)
  \/ WithRetryGiveUp(1)

BackoffTimerFires == \E out \in Outcomes : BackoffFires(1, out)

SpecSoloFair == SpecSolo /\ WF_vars(OpSettles) /\ WF_vars(BackoffTimerFires)

\* a withRetry invocation that has not settled
Running(pr) == pr.kind = "withRetry" /\ pr.pc \notin {"idle", "resolved", "rejected"}

\* the calls of fn and the backoff waits of an invocation stay within what
\* maxRetries allows, and an invocation that has not settled has a call of
\* fn in flight or a backoff timer armed
WithinRetryBudget(pr) ==
  pr.kind = "withRetry" =>
    /\ pr.calls >= 1 /\ pr.calls <= pr.maxRetries + 1
    /\ pr.waits <= pr.maxRetries /\ pr.waits = CountIn(pr.trace, "arm", Len(pr.trace))
    /\ pr.calls = CountIn(pr.trace, "call", Len(pr.trace))
    /\ Running(pr) =>
         \/ pr.pc = "await" /\ pr.trace[Len(pr.trace)] = "call"
         \/ pr.pc = "backoff" /\ pr.trace[Len(pr.trace)] = "arm"

\* C24: when every call of fn settles and every armed timer fires, a
\* withRetry invocation with maxRetries >= 0 eventually settles, after at
\* least one and at most maxRetries + 1 calls and at most maxRetries backoff
\* waits, and is never waiting without a call in flight or a timer armed.
C24_WithRetryTerminates ==
  /\ [](WithinRetryBudget(procs[1]))
  /\ (Running(procs[1]) ~> Settled(1))

\* C24 witness: an invocation with maxRetries 3 resolved by its fourth call,
\* after three backoff waits.
C24_Witness ==
  LET pr == procs[1] IN
  /\ pr.kind = "withRetry" /\ pr.maxRetries = 3
  /\ pr.pc = "resolved"
  /\ pr.calls = 4 /\ pr.waits = 3

\* C21 as stated: while a withRetry invocation is still retrying, hasError,
\* message and type stay as they were and no notification is emitted; the
\* step that ends a failed invocation records the error (setError) and
\* emits the one notification.
C21_RetriesNotSurfaced ==
  [][LET pr == procs[1]
         nx == procs'[1]
     IN  (pr.kind = "withRetry" /\ pr.pc \in {"await", "backoff"}) =>
           /\ nx.pc \in {"await", "backoff"} =>
                /\ errorState'.hasError = errorState.hasError
                /\ errorState'.message = errorState.message
                /\ errorState'.type = errorState.type
                /\ ~nx.notified
           /\ nx.pc = "rejected" => (errorState'.hasError /\ nx.notified)]_vars

(***************************************************************************)
(* Claims about errorState under overlapping invocations (Spec).           *)
(***************************************************************************)
\* C6 as stated: hasError == false implies retryCount == 0 and type == 'unknown'.
C6_ClearImpliesZeroRetries ==
  ~errorState.hasError => (errorState.retryCount = 0 /\ errorState.type = "unknown")

\* C6 amended: hasError == false implies type == 'unknown' and an empty
\* message; retryCount is not tied to hasError.
C6_ClearImpliesUnknownKind ==
  ~errorState.hasError => (errorState.type = "unknown" /\ errorState.message = "")

\* C6 witness: between two attempts of a running withRetry, no error
\* recorded and a retry counted.
C6_Witness ==
  /\ ~errorState.hasError
  /\ errorState.retryCount > 0
  /\ \E p \in Procs : procs[p].kind = "withRetry" /\ procs[p].pc = "backoff"

\* C17: the step in which an attempt of a withRetry invocation resolves
\* leaves errorState exactly Clear (hasError false, message empty, type
\* 'unknown', retryCount 0) in one step, whatever errorState held before and
\* however many retries the invocation took.
C17_SuccessClearsAll ==
  [][\A p \in Procs :
       (procs[p].kind = "withRetry" /\ procs[p].pc = "await" /\ procs'[p].pc = "resolved")
         => errorState' = ClearState]_vars

\* C17 witness: an invocation resolved after a retry and errorState Clear
\* although the other invocation was rejected and had its failure recorded.
C17_Witness ==
  \E p, q \in Procs :
    /\ procs[p].kind = "withRetry" /\ procs[p].pc = "resolved" /\ procs[p].waits >= 1
    /\ procs[q].kind = "withRetry" /\ procs[q].pc = "rejected"
    /\ procs[q].raised = "lastError"
    /\ errorState = ClearState

(***************************************************************************)
(* SpecOverlap: two invocation slots on one errorState, used by callers who *)
(* start an invocation only when no error is recorded (as the Dashboard     *)
(* does: the load on mount, and retryLoad after its clearError()); no       *)
(* direct setError, handleError or incrementRetry calls.                    *)
(***************************************************************************)
NextOverlap ==
  \/ \E p \in Procs : \E N \in 0..MaxOverlapRetries : \E out \in OverlapOutcomes :
       ~errorState.hasError /\ WithRetryStart(p, N, out, <<>>, "default", PlainTiming)
  \/ \E p \in Procs : WithRetryResolve(p)
  \/ \E p \in Procs : \E r \in Randoms(procs[p]) : WithRetryRetry(p, r)
  \/ \E p \in Procs : WithRetryShouldRetryRaises(p)
  \/ \E p \in Procs : WithRetryGiveUp(p)
  \/ \E p \in Procs : \E out \in OverlapOutcomes : BackoffFires(p, out)
  \/ \E p \in Procs : \E out \in OverlapOutcomes :
       ~errorState.hasError /\ SafeAsyncStart(p, out)
  \/ \E p \in Procs : SafeAsyncResolve(p)
  \/ \E p \in Procs : SafeAsyncReject(p)
  \/ \E p \in Procs : Return(p)
  \/ ClearErrorCall

SpecOverlap == InitRetry /\ [][NextOverlap]_vars

\* C26 as stated: retryCount never exceeds the largest maxRetries among the
\* withRetry invocations started on the errorState (none is started with
\* more than MaxOverlapRetries), overlapping invocations included.
C26_RetryCountWithinMaxRetries ==
  errorState.retryCount <= MaxOverlapRetries

\* C27 as stated: the error recorded by a withRetry invocation that failed
\* for good is not erased by the success of an invocation started before
\* that failure: when an invocation resolves while the other one, rejected
\* since this one started, has its error recorded, hasError stays true.
C27_FailureOutlivesEarlierSuccess ==
  [][\A p, q \in Procs :
       (/\ p # q
        /\ procs[q].kind = "withRetry" /\ procs[q].pc = "rejected"
        /\ procs[q].raised = "lastError"
        /\ errorState.hasError
        /\ procs[p].pc = "await" /\ procs'[p].pc = "resolved")
         => errorState'.hasError]_vars

\* the fields of errorState other than retryCount are left as they were
RecordUnchanged ==
  /\ errorState'.hasError = errorState.hasError
  /\ errorState'.message = errorState.message
  /\ errorState'.type = errorState.type

\* C22: a step changes retryCount only as incrementRetry does (by +1, the
\* record untouched), as clearError does (errorState Clear) or as the reset
\* at the start of withRetry does (to 0, the record untouched); a step that
\* writes the record of an error (setError, handleError), in the Clear or in
\* the Errored state, leaves retryCount as it was.  (errorState.timestamp,
\* a clock reading that setError and clearError both write, is not kept.)
C22_RetryCountFrame ==
  [][/\ errorState'.retryCount # errorState.retryCount =>
          \/ errorState'.retryCount = errorState.retryCount + 1 /\ RecordUnchanged
          \/ errorState' = ClearState
          \/ errorState'.retryCount = 0 /\ RecordUnchanged
     /\ (errorState'.hasError /\ ~RecordUnchanged) =>
          errorState'.retryCount = errorState.retryCount]_vars

\* C22 witness: an invocation that retried once and then failed for good:
\* the error is recorded and the retry it counted is still there.
C22_Witness ==
  \E p \in Procs :
    /\ procs[p].kind = "withRetry" /\ procs[p].pc = "rejected"
    /\ procs[p].raised = "lastError" /\ procs[p].waits = 1
    /\ errorState.hasError
    /\ errorState.retryCount = 1

(***************************************************************************)
(* SpecBackoff: one withRetry invocation at a time whose retryDelay,        *)
(* options.factor and options.jitter are drawn from small sets, with an op  *)
(* that resolves or rejects with a Network failure at each call.            *)
(***************************************************************************)
MaxRetryDelay == 2
MaxFactor == 3

Timings ==
  [retryDelay : 0 .. MaxRetryDelay, factor : 0 .. MaxFactor, jitter : BOOLEAN]

BackoffOutcomes == {Ok, NetFail}

NextBackoff ==
  \/ \E N \in 0..MaxRetries : \E out \in BackoffOutcomes : \E tm \in Timings :
       WithRetryStart(1, N, out, <<>>, "default", tm)
  \/ WithRetryResolve(1)
  \/ \E r \in Randoms(procs[1]) : WithRetryRetry(1, r)
  \/ WithRetryGiveUp(1)
  \/ \E out \in BackoffOutcomes : BackoffFires(1, out)
  \/ Return(1)

SpecBackoff == InitRetry /\ [][NextBackoff]_vars

\* C14: the backoff wait armed after failed attempt i (0-indexed, i <
\* maxRetries) is retryDelay * factor^i exactly when jitter is false, and lies
\* within [0.5, 1.0] times retryDelay * factor^i when jitter is true.
C14_BackoffDelay ==
  \A p \in Procs :
    LET pr   == procs[p]
        base == pr.timing.retryDelay * Pow(pr.timing.factor, pr.i)
    IN  pr.pc = "backoff" =>
          /\ pr.i < pr.maxRetries
          /\ ~pr.timing.jitter => pr.wait = WaitScale * base
          /\ pr.timing.jitter => /\ 2 * pr.wait >= WaitScale * base
                                 /\ pr.wait <= WaitScale * base

\* C14 witness: a jittered wait strictly inside the interval, armed after the
\* third failed attempt with the largest delay and factor.
C14_Witness ==
  LET pr   == procs[1]
      base == pr.timing.retryDelay * Pow(pr.timing.factor, pr.i)
  IN  /\ pr.pc = "backoff" /\ pr.i = 2
      /\ pr.timing = [retryDelay |-> MaxRetryDelay, factor |-> MaxFactor, jitter |-> TRUE]
      /\ 2 * pr.wait > WaitScale * base
      /\ pr.wait < WaitScale * base

(***************************************************************************)
(* useLoadingState (usePerformance.ts 164-191) and the bracketed load of    *)
(* Dashboard.vue (loadDashboardData, 25-37).                                *)
(***************************************************************************)
MaxLoadCalls == 5
MaxLoads == 2

Loads == 1 .. MaxLoads

Max(a, b) == IF a >= b THEN a ELSE b

\* startLoading: loadingCount.value++; isLoading.value = true
startLoading(ls) ==
  [count |-> ls.count + 1, loading |-> TRUE]

\* Mutant of stopLoading: the count is not floored at zero.
stopLoading_noFloor(ls) ==
  LET c == ls.count - 1
  IN  [count |-> c, loading |-> IF c = 0 THEN FALSE ELSE ls.loading]

\* Mutant of stopLoading: the flag is cleared whatever the count.
stopLoading_clearsFlag(ls) ==
  [count |-> Max(0, ls.count - 1), loading |-> FALSE]

\* stopLoading: loadingCount.value = Math.max(0, loadingCount.value - 1);
\* if (loadingCount.value === 0) isLoading.value = false
stopLoading(ls) ==
  LET c == Max(0, ls.count - 1)
  IN  [count |-> c, loading |-> IF c = 0 THEN FALSE ELSE ls.loading]

\* resetLoading: loadingCount.value = 0; isLoading.value = false
resetLoading(ls) ==
  [count |-> 0, loading |-> FALSE]

LoadingState == [count |-> loadingCount, loading |-> isLoading]

SetLoading(ls, call, by) ==
  /\ loadingCount' = ls.count
  /\ isLoading' = ls.loading
  /\ loadCalls' = Append(loadCalls, call)
  /\ callers' = Append(callers, by)

\* a caller invokes startLoading outside any bracket
StartLoadingCall ==
  /\ Len(loadCalls) < MaxLoadCalls
  /\ SetLoading(startLoading(LoadingState), "start", 0)
  /\ bracketed' = FALSE
  /\ UNCHANGED <<inflight, dashVars, errVars, clsVars, procs, debVars>>

\* a caller invokes stopLoading outside any bracket (possibly with no matching start)
StopLoadingCall ==
  /\ Len(loadCalls) < MaxLoadCalls
  /\ SetLoading(stopLoading(LoadingState), "stop", 0)
  /\ bracketed' = FALSE
  /\ UNCHANGED <<inflight, dashVars, errVars, clsVars, procs, debVars>>

ResetLoadingCall ==
  /\ Len(loadCalls) < MaxLoadCalls
  /\ SetLoading(resetLoading(LoadingState), "reset", 0)
  /\ bracketed' = FALSE
  /\ UNCHANGED <<inflight, dashVars, errVars, clsVars, procs, debVars>>

\* loadDashboardData up to its await: startLoading(), then the load is in flight
LoadBegin(o) ==
  /\ o \notin inflight
  /\ Len(loadCalls) < MaxLoadCalls - 1
  /\ SetLoading(startLoading(LoadingState), "start", o)
  /\ inflight' = inflight \cup {o}
  /\ UNCHANGED <<bracketed, dashVars, errVars, clsVars, procs, debVars>>

\* loadDashboardData's finally block, however the awaited load settled: stopLoading()
LoadEnd(o) ==
  /\ o \in inflight
  /\ SetLoading(stopLoading(LoadingState), "stop", o)
  /\ inflight' = inflight \ {o}
  /\ UNCHANGED <<bracketed, dashVars, errVars, clsVars, procs, debVars>>

NextLoading ==
  \/ StartLoadingCall
  \/ StopLoadingCall
  \/ ResetLoadingCall
  \/ \E o \in Loads : LoadBegin(o)
  \/ \E o \in Loads : LoadEnd(o)

SpecLoading == InitRetry /\ [][NextLoading]_vars

\* the count the calls made so far should have left: a start adds one, a stop
\* takes one away but never below zero, a reset returns to zero
RECURSIVE CountAfter(_)
CountAfter(calls) ==
  IF calls = <<>> THEN 0
  ELSE LET c == CountAfter(SubSeq(calls, 1, Len(calls) - 1))
           k == calls[Len(calls)]
       IN  CASE k = "start" -> c + 1
             [] k = "stop"  -> IF c > 0 THEN c - 1 ELSE 0
             [] OTHER       -> 0

\* C8: after any sequence of startLoading / stopLoading / resetLoading calls the
\* count is the number of unmatched starts, never negative (a stop with no
\* matching start leaves it at zero), and isLoading is true exactly when the
\* count is above zero: start,start,stop leaves isLoading true, one more stop
\* makes it false, and a further stray stop leaves it false with the count at 0.
C8_LoadingCountContract ==
  /\ loadingCount = CountAfter(loadCalls)
  /\ loadingCount >= 0
  /\ isLoading = (loadingCount > 0)
  /\ (loadCalls = <<"start", "start", "stop">> => isLoading /\ loadingCount = 1)
  /\ (loadCalls = <<"start", "start", "stop", "stop">> => ~isLoading /\ loadingCount = 0)
  /\ (loadCalls = <<"start", "start", "stop", "stop", "stop">>
        => ~isLoading /\ loadingCount = 0)

C8_Witness ==
  /\ loadCalls = <<"start", "start", "stop", "stop", "stop">>
  /\ ~isLoading
  /\ loadingCount = 0

\* C9: when every call comes from a load that calls startLoading on entry and
\* stopLoading exactly once on exit, then however the loads interleave,
\* isLoading is true exactly while at least one of them is still in flight.
C9_BracketedLoadsAggregate ==
  bracketed => /\ isLoading = (inflight # {})
               /\ loadingCount = Cardinality(inflight)

C9_Witness ==
  /\ bracketed
  /\ Cardinality(inflight) = 1
  /\ Len(loadCalls) >= 3
  /\ loadCalls[Len(loadCalls)] = "stop"
  /\ isLoading

\* the only direct calls made so far are resetLoading() calls: every
\* startLoading and stopLoading came from a bracketed load
OnlyLoadsAndResets ==
  \A k \in 1 .. Len(loadCalls) : callers[k] = 0 => loadCalls[k] = "reset"

\* the in-flight loads whose startLoading came after the latest
\* resetLoading() call (no reset was called while they were in flight)
BegunAfterReset ==
  {o \in inflight :
     \E k \in 1 .. Len(loadCalls) :
       /\ callers[k] = o /\ loadCalls[k] = "start"
       /\ \A j \in k + 1 .. Len(loadCalls) : callers[j] # o /\ loadCalls[j] # "reset"
       /\ \E r \in 1 .. k - 1 : loadCalls[r] = "reset"}

\* C29 as stated: among bracketed loads and resetLoading() calls, isLoading
\* is true for as long as a load begun after the latest reset is in flight,
\* whatever the loads begun before that reset do afterwards.
C29_LoadsAfterResetKeepLoading ==
  (OnlyLoadsAndResets /\ BegunAfterReset # {}) => isLoading

(***************************************************************************)
(* debounce (usePerformance.ts 24-55) and debouncedWatch (86-118), with the *)
(* host's setTimeout / clearTimeout.  The arguments of a call are stood for *)
(* by the call's ordinal, so that each call's arguments are distinct.       *)
(***************************************************************************)
MaxDelay == 2
MaxTime == 4
MaxCalls == 3
MaxCancels == 2

DebounceKinds == {"debounce", "watch"}

InitDebounce ==
  /\ InitErr /\ InitCls /\ InitProcs /\ InitLoad
  /\ dKind \in DebounceKinds
  /\ dDelay \in 0 .. MaxDelay
  /\ now = 0
  /\ timeoutId = 0
  /\ timers = {}
  /\ nextTimer = 1
  /\ cleanup = FALSE
  /\ callLog = <<>>
  /\ fireLog = <<>>
  /\ discarded = {}
  /\ InitSched

\* Mutant of clearTimeout: the timer stays armed.
clearTimeout_noop(ts, id) == ts

\* the host's clearTimeout(id): the timer with that id will not fire
clearTimeout(ts, id) == {tm \in ts : tm.id # id}

\* the host's setTimeout(callback, delay) at clock t, returning id
setTimeout(ts, id, t, delay, arg) ==
  ts \cup {[id |-> id, due |-> t + delay, arg |-> arg]}

\* debouncedFn(...args): if (timeoutId) clearTimeout(timeoutId);
\* timeoutId = setTimeout(() => { fn(...args); timeoutId = null }, delay)
DebouncedCall ==
  /\ dKind = "debounce"
  /\ Len(callLog) < MaxCalls
  /\ LET arg == Len(callLog) + 1
         ts  == IF timeoutId # 0 THEN clearTimeout(timers, timeoutId) ELSE timers
     IN  /\ timers' = setTimeout(ts, nextTimer, now, dDelay, arg)
         /\ timeoutId' = nextTimer
         /\ nextTimer' = nextTimer + 1
         /\ callLog' = Append(callLog, [arg |-> arg, t |-> now])
  /\ UNCHANGED <<dKind, dDelay, lastCall, now, cleanup, fireLog, discarded, schedVars,
                 errVars, clsVars, procs, loadVars>>

\* the watcher's job after a change of the source: the cleanup registered by
\* the previous run executes first (if (timeoutId) { clearTimeout; timeoutId =
\* null }), then the callback: if (timeoutId) clearTimeout(timeoutId);
\* onCleanup(...); timeoutId = setTimeout(() => { callback(...); timeoutId =
\* null }, delay)
WatchedSourceChanges ==
  /\ dKind = "watch"
  /\ ~unmounted
  /\ Len(callLog) < MaxCalls
  /\ LET arg  == Len(callLog) + 1
         id1  == IF cleanup /\ timeoutId # 0 THEN 0 ELSE timeoutId
         ts1  == IF cleanup /\ timeoutId # 0 THEN clearTimeout(timers, timeoutId) ELSE timers
         ts2  == IF id1 # 0 THEN clearTimeout(ts1, id1) ELSE ts1
     IN  /\ timers' = setTimeout(ts2, nextTimer, now, dDelay, arg)
         /\ timeoutId' = nextTimer
         /\ nextTimer' = nextTimer + 1
         /\ cleanup' = TRUE
         /\ callLog' = Append(callLog, [arg |-> arg, t |-> now])
  /\ UNCHANGED <<dKind, dDelay, lastCall, now, fireLog, discarded, schedVars,
                 errVars, clsVars, procs, loadVars>>

\* an armed timer whose delay has elapsed runs its callback:
\* fn(...args); timeoutId = null
TimerFires(tm) ==
  /\ dKind \in DebounceKinds
  /\ tm \in timers
  /\ now >= tm.due
  /\ timers' = timers \ {tm}
  /\ timeoutId' = 0
  /\ fireLog' = Append(fireLog, [arg |-> tm.arg, t |-> now, n |-> Len(callLog)])
  /\ runLog' = Append(runLog, [by |-> tm.arg, t |-> now, dead |-> unmounted])
  /\ UNCHANGED <<dKind, dDelay, lastCall, now, nextTimer, cleanup, callLog, discarded,
                 pendingOptimized, nextTicks, unmounted, cancelLog,
                 errVars, clsVars, procs, loadVars>>

\* Mutant of Cancel: timeoutId is reset but the timer is left armed.
Cancel_keepsTimer ==
  /\ dKind = "debounce"
  /\ Len(cancelLog) < MaxCancels
  /\ timeoutId' = 0
  /\ discarded' = IF timeoutId # 0 THEN discarded \cup {Len(callLog)} ELSE discarded
  /\ cancelLog' = Append(cancelLog, [calls |-> Len(callLog), fires |-> Len(fireLog)])
  /\ UNCHANGED <<dKind, dDelay, lastCall, now, timers, nextTimer, cleanup, callLog, fireLog,
                 pendingOptimized, nextTicks, unmounted, runLog,
                 errVars, clsVars, procs, loadVars>>

\* debouncedFn.cancel(): if (timeoutId) { clearTimeout(timeoutId); timeoutId = null }
Cancel ==
  /\ dKind = "debounce"
  /\ Len(cancelLog) < MaxCancels
  /\ IF timeoutId # 0
       THEN /\ timers' = clearTimeout(timers, timeoutId)
            /\ timeoutId' = 0
            /\ discarded' = discarded \cup {Len(callLog)}
       ELSE UNCHANGED <<timers, timeoutId, discarded>>
  /\ cancelLog' = Append(cancelLog, [calls |-> Len(callLog), fires |-> Len(fireLog)])
  /\ UNCHANGED <<dKind, dDelay, lastCall, now, nextTimer, cleanup, callLog, fireLog,
                 pendingOptimized, nextTicks, unmounted, runLog,
                 errVars, clsVars, procs, loadVars>>

\* time passes once the microtasks queued by nextTick have run; a due timer
\* may fire late but the clock never stops for it
Tick ==
  /\ now < MaxTime
  /\ nextTicks = <<>>
  /\ now' = now + 1
  /\ UNCHANGED <<dKind, dDelay, lastCall, timeoutId, timers, nextTimer, cleanup, callLog,
                 fireLog, discarded, schedVars, errVars, clsVars, procs, loadVars>>

NextDebounce ==
  \/ DebouncedCall
  \/ WatchedSourceChanges
  \/ \E tm \in timers : TimerFires(tm)
  \/ Cancel
  \/ Tick

SpecDebounce == InitDebounce /\ [][NextDebounce]_vars

\* the calls that were followed by another call less than the delay later
Superseded ==
  {j \in 1 .. Len(callLog) - 1 : callLog[j + 1].t - callLog[j].t < dDelay}

\* C10: debounce and debouncedWatch deliver on the trailing edge: every
\* invocation of the target carries the arguments of the latest call made, comes
\* no earlier than the delay after that call, and happens at most once per call;
\* a call followed by another one less than the delay later is never delivered;
\* and unless cancel discarded it, the last call has been delivered by the time
\* no timer is pending.
C10_TrailingEdgeDebounce ==
  /\ \A f \in 1 .. Len(fireLog) :
       /\ fireLog[f].n >= 1
       /\ fireLog[f].arg = callLog[fireLog[f].n].arg
       /\ fireLog[f].t >= callLog[fireLog[f].n].t + dDelay
       /\ \A g \in 1 .. f - 1 : fireLog[g].arg < fireLog[f].arg
  /\ \A j \in Superseded : \A f \in 1 .. Len(fireLog) : fireLog[f].arg # callLog[j].arg
  /\ (timeoutId = 0 /\ callLog # <<>> /\ Len(callLog) \notin discarded)
       => /\ fireLog # <<>>
          /\ fireLog[Len(fireLog)].arg = callLog[Len(callLog)].arg

C10_Witness ==
  /\ Len(callLog) = 3
  /\ Superseded = {1, 2}
  /\ dDelay = MaxDelay
  /\ fireLog = <<[arg |-> 3, t |-> callLog[3].t + dDelay, n |-> 3]>>
  /\ timeoutId = 0

\* What a cancel() leaves behind, as seen in the histories: no invocation made
\* after it delivers a call made before it, and a call made after it is
\* delivered like a first call, with its own arguments and no earlier than
\* the delay after it.
CancelDiscards ==
  /\ \A c \in 1 .. Len(cancelLog) : \A f \in 1 .. Len(fireLog) :
       f > cancelLog[c].fires => fireLog[f].arg > cancelLog[c].calls
  /\ (/\ cancelLog # <<>>
      /\ timeoutId = 0
      /\ Len(callLog) > cancelLog[Len(cancelLog)].calls)
       => /\ fireLog # <<>>
          /\ fireLog[Len(fireLog)].arg = Len(callLog)
          /\ fireLog[Len(fireLog)].t >= callLog[Len(callLog)].t + dDelay

\* What a cancel() step changes: the pending timer is cleared and timeoutId
\* is null afterwards, as before the first call; nothing is invoked and no
\* other part of the registration changes; with nothing pending the step
\* changes nothing, so a second cancel adds nothing to the first.
CancelStep ==
  cancelLog' # cancelLog =>
    /\ timeoutId' = 0
    /\ timers' = {}
    /\ UNCHANGED <<dKind, dDelay, now, cleanup, callLog, fireLog, runLog>>
    /\ timeoutId = 0 => UNCHANGED <<timers, discarded>>

\* C13: cancel() of a debounce registration discards the pending invocation
\* (the wrapped function is not invoked for any call made before the cancel),
\* changes nothing else, leaves the registration as before its first call,
\* and changes nothing when nothing is pending.
C13_CancelDiscardsPending == []CancelDiscards /\ [][CancelStep]_vars

\* C13 witness: a call, cancel twice, then a second call delivered on its own.
C13_Witness ==
  /\ dKind = "debounce"
  /\ cancelLog = <<[calls |-> 1, fires |-> 0], [calls |-> 1, fires |-> 0]>>
  /\ Len(callLog) = 2
  /\ Len(fireLog) = 1 /\ fireLog[1].arg = 2
  /\ timeoutId = 0

(***************************************************************************)
(* SpecScheduler: one usePerformance instance holding a debounce            *)
(* registration, a debouncedWatch registration or the optimizedUpdate map   *)
(* (usePerformance.ts 9-17, 125-159), up to and after the unmount of the    *)
(* owning component.  The clock counts units of 100 ms.                     *)
(***************************************************************************)
SchedulerKinds == DebounceKinds \cup {"optimized"}

Priorities == {"high", "normal", "low"}

\* const delays = { high: 0, normal: 100, low: 300 }
DelayOf(priority) ==
  CASE priority = "high"   -> 0
    [] priority = "normal" -> 1
    [] OTHER               -> 3

InitScheduler ==
  /\ InitErr /\ InitCls /\ InitProcs /\ InitLoad
  /\ \/ dKind \in DebounceKinds /\ dDelay \in 0 .. MaxDelay
     \/ dKind = "optimized" /\ dDelay = 0
  /\ now = 0
  /\ timeoutId = 0
  /\ timers = {}
  /\ nextTimer = 1
  /\ cleanup = FALSE
  /\ callLog = <<>>
  /\ fireLog = <<>>
  /\ discarded = {}
  /\ InitSched

\* Mutant of Existing: the map is never found to hold an entry.
Existing_none(pend, cb) == 0

\* const existing = pendingOptimized.get(callback)
Existing(pend, cb) == pend[cb]

\* Mutant of ClearExisting: the timer found is left armed.
ClearExisting_never(ts, id) == ts

\* if (existing) clearTimeout(existing)
ClearExisting(ts, id) == IF id # 0 THEN clearTimeout(ts, id) ELSE ts

\* the optimizedUpdate calls of a run: as many as there are priorities
MaxUpdates == Cardinality(Priorities)

\* optimizedUpdate(callback, priority)
OptimizedUpdate(cb, priority) ==
  /\ dKind = "optimized"
  /\ Len(callLog) < MaxUpdates
  /\ LET ord == Len(callLog) + 1
         ts  == ClearExisting(timers, Existing(pendingOptimized, cb))
     IN  /\ callLog' = Append(callLog, [arg |-> ord, t |-> now, cb |-> cb,
                                        prio |-> priority])
         /\ IF priority = "high"
              THEN /\ timers' = ts
                   /\ pendingOptimized' = [pendingOptimized EXCEPT ![cb] = 0]
                   /\ nextTicks' = Append(nextTicks, [cb |-> cb, by |-> ord])
                   /\ UNCHANGED nextTimer
              ELSE /\ timers' = setTimeout(ts, nextTimer, now, DelayOf(priority), ord)
                   /\ pendingOptimized' = [pendingOptimized EXCEPT ![cb] = nextTimer]
                   /\ nextTimer' = nextTimer + 1
                   /\ UNCHANGED nextTicks
  /\ UNCHANGED <<dKind, dDelay, lastCall, now, timeoutId, cleanup, fireLog, discarded,
                 unmounted, cancelLog, runLog, errVars, clsVars, procs, loadVars>>

\* Mutant of OptimizedTimerFires: the fired timer's entry stays in the map.
OptimizedTimerFires_keepsEntry(tm) ==
  /\ dKind = "optimized"
  /\ tm \in timers
  /\ now >= tm.due
  /\ nextTicks = <<>>
  /\ timers' = timers \ {tm}
  /\ nextTicks' = Append(nextTicks, [cb |-> callLog[tm.arg].cb, by |-> tm.arg])
  /\ fireLog' = Append(fireLog, [arg |-> tm.arg, t |-> now, n |-> Len(callLog)])
  /\ UNCHANGED <<dKind, dDelay, lastCall, now, timeoutId, nextTimer, cleanup, callLog, discarded,
                 pendingOptimized, unmounted, cancelLog, runLog, errVars, clsVars,
                 procs, loadVars>>

\* a timer armed by optimizedUpdate runs its callback once the microtasks
\* have run: pendingOptimized.delete(callback); nextTick(callback)
OptimizedTimerFires(tm) ==
  /\ dKind = "optimized"
  /\ tm \in timers
  /\ now >= tm.due
  /\ nextTicks = <<>>
  /\ timers' = timers \ {tm}
  /\ pendingOptimized' = [pendingOptimized EXCEPT ![callLog[tm.arg].cb] = 0]
  /\ nextTicks' = Append(nextTicks, [cb |-> callLog[tm.arg].cb, by |-> tm.arg])
  /\ fireLog' = Append(fireLog, [arg |-> tm.arg, t |-> now, n |-> Len(callLog)])
  /\ UNCHANGED <<dKind, dDelay, lastCall, now, timeoutId, nextTimer, cleanup, callLog, discarded,
                 unmounted, cancelLog, runLog, errVars, clsVars, procs, loadVars>>

\* the microtask queued by nextTick(callback) runs: callback()
RunNextTick ==
  /\ nextTicks # <<>>
  /\ runLog' = Append(runLog, [by |-> Head(nextTicks).by, t |-> now, dead |-> unmounted])
  /\ nextTicks' = Tail(nextTicks)
  /\ UNCHANGED <<dKind, dDelay, lastCall, now, timeoutId, timers, nextTimer, cleanup, callLog,
                 fireLog, discarded, pendingOptimized, unmounted, cancelLog,
                 errVars, clsVars, procs, loadVars>>

\* the timers the unmount of the owning component clears: debounce's
\* onBeforeUnmount(cancel); the stopped watcher's registered cleanup; the
\* instance's onBeforeUnmount hook over pendingOptimized
ClearedOnUnmount ==
  CASE dKind = "debounce" -> {timeoutId} \ {0}
    [] dKind = "watch"    -> IF cleanup THEN {timeoutId} \ {0} ELSE {}
    [] OTHER              -> {pendingOptimized[cb] : cb \in Callbacks} \ {0}

\* the owning component is unmounted: its onBeforeUnmount hooks run and its
\* watchers are stopped
Unmount ==
  /\ ~unmounted
  /\ unmounted' = TRUE
  /\ timers' = {tm \in timers : tm.id \notin ClearedOnUnmount}
  /\ discarded' = discarded \cup {tm.arg : tm \in {x \in timers : x.id \in ClearedOnUnmount}}
  /\ timeoutId' = IF ClearedOnUnmount # {} /\ dKind \in DebounceKinds THEN 0 ELSE timeoutId
  /\ cleanup' = FALSE
  /\ pendingOptimized' = [cb \in Callbacks |-> 0]
  /\ UNCHANGED <<dKind, dDelay, lastCall, now, nextTimer, callLog, fireLog, nextTicks, cancelLog,
                 runLog, errVars, clsVars, procs, loadVars>>

\* the callbacks a call may pass: one passed before, or the next new one
\* (callbacks differ by identity only, so they are numbered as they appear)
KnownCallbacks ==
  IF dKind # "optimized" THEN {}
  ELSE {cb \in Callbacks :
          \A c \in 1 .. cb - 1 : \E j \in 1 .. Len(callLog) : callLog[j].cb = c}

NextScheduler ==
  \/ DebouncedCall
  \/ WatchedSourceChanges
  \/ \E tm \in timers : TimerFires(tm)
  \/ Cancel
  \/ \E cb \in KnownCallbacks : \E priority \in Priorities : OptimizedUpdate(cb, priority)
  \/ \E tm \in timers : OptimizedTimerFires(tm)
  \/ RunNextTick
  \/ Unmount
  \/ Tick

SpecScheduler == InitScheduler /\ [][NextScheduler]_vars

\* the registration a call was made on, and the one a timer was armed for:
\* the callback for optimizedUpdate, the one registration otherwise
OwnerOfCall(j) == IF dKind = "optimized" THEN callLog[j].cb ELSE 0
Owner(tm) == OwnerOfCall(tm.arg)

\* C11: for a debounce registration, a debouncedWatch registration and each
\* optimizedUpdate callback, at most one timer is armed at any instant, it is
\* the one the registration holds, and a timer that fires is the one armed
\* by the latest call made on its registration: no superseded timer fires.
C11_OneTimerPerRegistration ==
  /\ \A t1, t2 \in timers : Owner(t1) = Owner(t2) => t1 = t2
  /\ \A tm \in timers :
       tm.id = (IF dKind = "optimized" THEN pendingOptimized[Owner(tm)] ELSE timeoutId)
  /\ \A f \in 1 .. Len(fireLog) : \A j \in 1 .. fireLog[f].n :
       OwnerOfCall(j) = OwnerOfCall(fireLog[f].arg) => j <= fireLog[f].arg

\* C11 witness: two callbacks each with one timer armed, the first of them
\* re-armed by a later call, nothing fired.
C11_Witness ==
  /\ dKind = "optimized"
  /\ Len(callLog) = 3
  /\ callLog[1].cb = callLog[3].cb /\ callLog[2].cb # callLog[1].cb
  /\ Cardinality(timers) = 2
  /\ fireLog = <<>>

\* the timers armed by optimizedUpdate for a callback that are still pending
PendingFor(cb) == {tm \in timers : Owner(tm) = cb}

\* C28: pendingOptimized has an entry for a callback exactly when a timer
\* armed by optimizedUpdate for that callback is still pending, and the entry
\* is that timer's id: a timer that fired, was superseded or was cleared on
\* unmount has left no entry behind, and a superseding 'normal' or 'low'
\* call has put its own timer in place of the one it cleared.
C28_EntryIffPendingTimer ==
  dKind = "optimized" =>
    \A cb \in Callbacks :
      /\ pendingOptimized[cb] # 0 <=> PendingFor(cb) # {}
      /\ pendingOptimized[cb] # 0 =>
           /\ PendingFor(cb) = {tm \in timers : tm.id = pendingOptimized[cb]}
           /\ \A tm \in PendingFor(cb) :
                /\ callLog[tm.arg].prio # "high"
                /\ \A j \in tm.arg + 1 .. Len(callLog) : callLog[j].cb # cb
                /\ \A f \in 1 .. Len(fireLog) : fireLog[f].arg # tm.arg

\* C28 witness: a callback's entry was replaced by a 'low' call, whose timer
\* fired and removed it, while a second callback's entry was set and then
\* removed by the unmount.
C28_Witness ==
  /\ dKind = "optimized"
  /\ Len(callLog) = 3
  /\ callLog[1].cb = 1 /\ callLog[2].cb = 1 /\ callLog[3].cb = 2
  /\ callLog[1].prio = "normal" /\ callLog[2].prio = "low"
  /\ callLog[3].prio = "normal"
  /\ Len(fireLog) = 1 /\ fireLog[1].arg = 2
  /\ unmounted
  /\ timers = {}
  /\ \A cb \in Callbacks : pendingOptimized[cb] = 0

\* C12 as stated: after the owning component was torn down, no callback
\* handed to debounce, debouncedWatch or optimizedUpdate is invoked.
C12_NoInvocationAfterTeardown ==
  \A k \in 1 .. Len(runLog) : ~runLog[k].dead

\* the optimizedUpdate calls followed, on the same callback, by a call less
\* than that later call's own delay afterwards
FollowedWithinOwnDelay ==
  {j \in 1 .. Len(callLog) : \E k \in j + 1 .. Len(callLog) :
     /\ callLog[k].cb = callLog[j].cb
     /\ \A m \in j + 1 .. k - 1 : callLog[m].cb # callLog[j].cb
     /\ callLog[k].t - callLog[j].t < DelayOf(callLog[k].prio)}

\* the optimizedUpdate calls followed, on the same callback, by a call less
\* than their own delay afterwards, that is before their timer is due
FollowedBeforeDue ==
  {j \in 1 .. Len(callLog) : \E k \in j + 1 .. Len(callLog) :
     /\ callLog[k].cb = callLog[j].cb
     /\ \A m \in j + 1 .. k - 1 : callLog[m].cb # callLog[j].cb
     /\ callLog[k].t - callLog[j].t < DelayOf(callLog[j].prio)}

Deliveries(j) == Cardinality({k \in 1 .. Len(runLog) : runLog[k].by = j})

\* the last call made on each callback
LastCalls ==
  {j \in 1 .. Len(callLog) : \A k \in j + 1 .. Len(callLog) : callLog[k].cb # callLog[j].cb}

\* a burst whose calls are the members of inner followed by its last call is
\* delivered exactly once: no call delivers twice, a call of inner never
\* delivers, and once nothing is pending the last call made on a callback has
\* delivered unless the unmount discarded it
DeliveredOncePerBurst(inner) ==
  dKind = "optimized" =>
    /\ \A j \in 1 .. Len(callLog) : Deliveries(j) <= 1
    /\ \A j \in inner : Deliveries(j) = 0
    /\ (timers = {} /\ nextTicks = <<>>)
         => \A j \in LastCalls \ discarded : Deliveries(j) = 1

\* C18 as stated: a burst of optimizedUpdate calls with the same callback,
\* each less than its own priority's delay after the previous one, delivers
\* the callback exactly once whatever the priorities.
C18_BurstDeliveredOnce == DeliveredOncePerBurst(FollowedWithinOwnDelay)

\* C18 amended: the same for a burst in which each call comes less than the
\* previous call's delay after it, that is before the pending timer is due.
C18_BurstBeforeDueDeliveredOnce == DeliveredOncePerBurst(FollowedBeforeDue)

\* C18 witness: 'normal', 'low', 'high' on one callback, each before the
\* pending timer is due, and one delivery, by the third call.
C18_Witness ==
  /\ dKind = "optimized"
  /\ Len(callLog) = 3
  /\ <<callLog[1].prio, callLog[2].prio, callLog[3].prio>> = <<"normal", "low", "high">>
  /\ FollowedBeforeDue = {1, 2}
  /\ callLog[3].t > callLog[1].t
  /\ Len(runLog) = 1 /\ runLog[1].by = 3
  /\ timers = {} /\ nextTicks = <<>>

(***************************************************************************)
(* SpecDashboard: one Dashboard view (Dashboard.vue 20-46, 56-70): the      *)
(* load started on mount and the loads started by the retry button of the   *)
(* error alert, each a withRetry(fetch, 2, 1500) bracketed by startLoading  *)
(* and stopLoading.  A response is named by the load that asked for it.     *)
(***************************************************************************)
\* withRetry(..., 2, 1500): the maxRetries the view passes
DashboardRetries == 2

\* what getDashboardStats() may reject with
DashFailures == {NetFail, DataFail, BadFail}

\* loadDashboardData up to its first getDashboardStats() call, entered with
\* errorState es: startLoading(), withRetry resets retryCount, fn() is called
LoadDashboardData(es) ==
  LET n == dashStarted + 1
  IN  /\ dashStarted < MaxDashLoads
      /\ dashStarted' = n
      /\ dash' = [dash EXCEPT ![n] =
                    [phase |-> "fetching", i |-> 0, resolved |-> FALSE, with |-> inflight]]
      /\ SetLoading(startLoading(LoadingState), "start", n)
      /\ inflight' = inflight \cup {n}
      /\ errorState' = [es EXCEPT !.retryCount = 0]
      /\ UNCHANGED <<dashboardStats, bracketed, onLine, clsVars, procs, debVars>>

\* onMounted(() => loadDashboardData())
Mounted ==
  /\ dashStarted = 0
  /\ page' = page
  /\ LoadDashboardData(errorState)

\* a click on the retry button of the error alert: the button is on the page
\* as last rendered and ignores clicks while it shows as loading;
\* retryLoad does clearError(); loadDashboardData()
RetryLoad ==
  /\ page.alert /\ ~page.loading
  /\ page' = page
  /\ LoadDashboardData(clearError(errorState))

\* the page catches up with the state: the alert is there while
\* errorState.hasError, its button showing isLoading; until then the page
\* is as last rendered (the alert stays up while it leaves)
Rendered ==
  IF errorState.hasError THEN [alert |-> TRUE, loading |-> isLoading]
  ELSE [alert |-> FALSE, loading |-> FALSE]

Render ==
  /\ page # Rendered
  /\ page' = Rendered
  /\ UNCHANGED <<dashboardStats, dash, dashStarted, loadingCount, isLoading, inflight,
                 loadCalls, bracketed, callers, errVars, clsVars, procs, debVars>>

\* Mutant of DashFinally: the load ends without stopLoading().
DashFinally_skipped(n) ==
  /\ inflight' = inflight \ {n}
  /\ UNCHANGED <<loadingCount, isLoading, loadCalls, callers>>

\* the finally block of loadDashboardData for load n
DashFinally(n) ==
  /\ SetLoading(stopLoading(LoadingState), "stop", n)
  /\ inflight' = inflight \ {n}

\* getDashboardStats() of load n resolves: the response is stored, withRetry
\* does clearError() and returns, finally stopLoading()
FetchResolves(n) ==
  /\ dash[n].phase = "fetching"
  /\ dashboardStats' = n
  /\ errorState' = clearError(errorState)
  /\ dash' = [dash EXCEPT ![n].phase = "settled", ![n].resolved = TRUE]
  /\ DashFinally(n)
  /\ UNCHANGED <<dashStarted, page, bracketed, onLine, clsVars, procs, debVars>>

\* getDashboardStats() of load n rejects with e on an attempt that withRetry
\* retries: incrementRetry() and the backoff wait begins
FetchRejectsRetried(n, e) ==
  /\ dash[n].phase = "fetching"
  /\ dash[n].i < DashboardRetries
  /\ shouldRetry("default", e, onLine) = "true"
  /\ errorState' = incrementRetry(errorState)
  /\ dash' = [dash EXCEPT ![n].phase = "backoff"]
  /\ UNCHANGED <<dashboardStats, dashStarted, page, loadingCount, isLoading, inflight,
                 loadCalls, bracketed, callers, onLine, clsVars, procs, debVars>>

\* getDashboardStats() of load n rejects with e and withRetry gives up:
\* handleError(lastError) unless the classification raised first, the
\* rejection is swallowed by the catch block, finally stopLoading()
FetchRejectsFinal(n, e) ==
  /\ dash[n].phase = "fetching"
  /\ ~(dash[n].i < DashboardRetries /\ shouldRetry("default", e, onLine) = "true")
  /\ errorState' = handleError(errorState, e, onLine)
  /\ dash' = [dash EXCEPT ![n].phase = "settled"]
  /\ DashFinally(n)
  /\ UNCHANGED <<dashboardStats, dashStarted, page, bracketed, onLine, clsVars, procs,
                 debVars>>

\* the backoff wait of load n ends: the next attempt calls getDashboardStats()
DashBackoffFires(n) ==
  /\ dash[n].phase = "backoff"
  /\ dash' = [dash EXCEPT ![n].phase = "fetching", ![n].i = @ + 1]
  /\ UNCHANGED <<dashboardStats, dashStarted, page, loadingCount, isLoading, inflight,
                 loadCalls, bracketed, callers, errVars, clsVars, procs, debVars>>

NextDashboard ==
  \/ Mounted
  \/ RetryLoad
  \/ Render
  \/ \E n \in DashLoads : FetchResolves(n)
  \/ \E n \in DashLoads : \E e \in DashFailures : FetchRejectsRetried(n, e)
  \/ \E n \in DashLoads : \E e \in DashFailures : FetchRejectsFinal(n, e)
  \/ \E n \in DashLoads : DashBackoffFires(n)

SpecDashboard == InitRetry /\ [][NextDashboard]_vars

StartedLoads == 1 .. dashStarted
SettledLoads == {n \in StartedLoads : dash[n].phase = "settled"}

\* C25: every loadDashboardData run has called startLoading once, before its
\* fetch, and calls stopLoading once, when its withRetry has settled, by
\* resolving or by rejecting (the rejection is swallowed: the run settles
\* like the others); so isLoading is true exactly while a run is in flight
\* and false once all the runs started have settled, however they overlap.
C25_LoadsBracketLoading ==
  /\ CountIn(loadCalls, "start", Len(loadCalls)) = dashStarted
  /\ CountIn(loadCalls, "stop", Len(loadCalls)) = Cardinality(SettledLoads)
  /\ inflight = StartedLoads \ SettledLoads
  /\ loadingCount = Cardinality(inflight)
  /\ isLoading = (inflight # {})
  /\ (dashStarted >= 1 /\ SettledLoads = StartedLoads) => (~isLoading /\ loadingCount = 0)

\* C25 witness: three loads, the last two overlapping, one of them resolved
\* and the other rejected, all settled and nothing loading.
C25_Witness ==
  /\ dashStarted = 3 /\ SettledLoads = {1, 2, 3}
  /\ dash[3].with = {2}
  /\ dash[2].resolved /\ ~dash[3].resolved
  /\ ~isLoading
  /\ loadCalls = <<"start", "stop", "start", "start", "stop", "stop">>

(***************************************************************************)
(* SpecThrottle: one function returned by throttle(fn, delay)               *)
(* (usePerformance.ts 63-76), called by its owner as the clock advances.    *)
(* Date.now() counts from the epoch: when the function is created it is     *)
(* already above any delay a caller passes.                                 *)
(***************************************************************************)
Epoch == MaxDelay + 1

InitThrottle ==
  /\ InitErr /\ InitCls /\ InitProcs /\ InitLoad
  /\ dKind = "throttle"
  /\ dDelay \in 0 .. MaxDelay
  /\ now = Epoch
  /\ timeoutId = 0
  /\ timers = {}
  /\ nextTimer = 1
  /\ cleanup = FALSE
  /\ callLog = <<>>
  /\ fireLog = <<>>
  /\ discarded = {}
  /\ InitSched

\* Mutant of throttled: lastCall is left as it was.
throttled_keepsLastCall(last, t, delay) ==
  IF t - last >= delay
    THEN [lastCall |-> last, invokes |-> TRUE]
    ELSE [lastCall |-> last, invokes |-> FALSE]

\* const now = Date.now();
\* if (now - lastCall >= delay) { lastCall = now; return fn(...args) }
throttled(last, t, delay) ==
  IF t - last >= delay
    THEN [lastCall |-> t, invokes |-> TRUE]
    ELSE [lastCall |-> last, invokes |-> FALSE]

\* the owner calls the throttled function
ThrottledCall ==
  /\ dKind = "throttle"
  /\ Len(callLog) < MaxCalls
  /\ LET arg == Len(callLog) + 1
         r   == throttled(lastCall, now, dDelay)
     IN  /\ callLog' = Append(callLog, [arg |-> arg, t |-> now])
         /\ lastCall' = r.lastCall
         /\ fireLog' = IF r.invokes
                         THEN Append(fireLog, [arg |-> arg, t |-> now, n |-> arg])
                         ELSE fireLog
  /\ UNCHANGED <<dKind, dDelay, now, timeoutId, timers, nextTimer, cleanup, discarded,
                 schedVars, errVars, clsVars, procs, loadVars>>

\* Date.now() moves on between two calls
ClockAdvances ==
  /\ dKind = "throttle"
  /\ now < Epoch + MaxTime
  /\ now' = now + 1
  /\ UNCHANGED <<dKind, dDelay, lastCall, timeoutId, timers, nextTimer, cleanup, callLog,
                 fireLog, discarded, schedVars, errVars, clsVars, procs, loadVars>>

NextThrottle ==
  \/ ThrottledCall
  \/ ClockAdvances

SpecThrottle == InitThrottle /\ [][NextThrottle]_vars

\* the calls that invoked fn
Invoking == {fireLog[f].arg : f \in 1 .. Len(fireLog)}

\* the calls before call j that invoked fn
InvokingBefore(j) == {i \in Invoking : i < j}

\* the latest of a non-empty set of calls
Latest(S) == CHOOSE i \in S : \A k \in S : k <= i

\* C30: a call of the throttled function invokes fn, within the call itself,
\* exactly when it is the first call or at least the delay has passed since
\* the last call that invoked fn; any two invocations are at least the delay
\* apart; a suppressed call arms no timer and is never delivered later.
C30_ThrottleLeadingEdge ==
  /\ \A j \in 1 .. Len(callLog) :
       j \in Invoking <=>
         \/ InvokingBefore(j) = {}
         \/ callLog[j].t - callLog[Latest(InvokingBefore(j))].t >= dDelay
  /\ \A f \in 1 .. Len(fireLog) :
       /\ fireLog[f].arg \in 1 .. Len(callLog)
       /\ fireLog[f].t = callLog[fireLog[f].arg].t
       /\ fireLog[f].n = fireLog[f].arg
       /\ \A g \in 1 .. f - 1 :
            /\ fireLog[g].arg < fireLog[f].arg
            /\ fireLog[f].t - fireLog[g].t >= dDelay
  /\ timers = {}
  /\ nextTimer = 1
  /\ nextTicks = <<>>

\* C30 witness: with the longest delay, the first call invokes fn, a call
\* made before the delay is over is suppressed and stays undelivered when the
\* delay is over, and the call made then invokes fn.
C30_Witness ==
  /\ dKind = "throttle"
  /\ dDelay = MaxDelay
  /\ Len(callLog) = 3
  /\ callLog[1].t = Epoch
  /\ callLog[2].t = Epoch + 1
  /\ callLog[3].t = Epoch + MaxDelay
  /\ Invoking = {1, 3}
  /\ now > callLog[3].t

====
